---- MODULE Spec2Model ----
(***************************************************************************)
(* Crew availability constraint generator                                  *)
(* (src/crew_availability_constraints.cpp).                                *)
(*                                                                         *)
(* The generator counts the duties of an initial schedule per base and per *)
(* day, adds a percentage of slack and rounds the result to integers by    *)
(* largest remainder.  The arithmetic of the program is IEEE-754 binary32  *)
(* (`float`) with some intermediate binary64 (`double`) expressions; the   *)
(* model keeps the binary32 roundings, because floors and remainders       *)
(* depend on them.                                                         *)
(***************************************************************************)
EXTENDS Integers, Sequences, FiniteSets, TLC

(***************************************************************************)
(* binary32 arithmetic.                                                    *)
(*                                                                         *)
(* A float is a pair <<m, e>> of value m * 2^e, with m = 0 (zero, e = 0)   *)
(* or 2^23 <= |m| < 2^24.  Two more pairs stand for +inf and NaN.  The     *)
(* operators take non-negative floats; only the slack that is reported can *)
(* be negative.                                                            *)
(* An intermediate `double` expression is modelled by its exact value in   *)
(* the places where it is exact or where its error (below 2^-52) cannot    *)
(* reach a binary32 rounding boundary; the result is then rounded once, to *)
(* binary32, when it is stored in a float.                                 *)
(***************************************************************************)

\* number of bits of the significand of a float
MantBits == 24

FZero == <<0, 0>>
FInf == <<-1, 0>>
FNaN == <<-2, 0>>

\* -inf, which only the reported slack can be
FNegInf == <<-3, 0>>

FIsFinite(x) == x # FInf /\ x # FNaN /\ x # FNegInf

\* the opposite of a positive float
FNeg(x) == IF x[1] > 0 THEN <<-x[1], x[2]>> ELSE x

RECURSIVE BitLen(_)
BitLen(n) == IF n = 0 THEN 0 ELSE 1 + BitLen(n \div 2)

\* (I + fn/fd) * 2^e rounded to the nearest float, ties to even;
\* I >= 0, 0 <= fn < fd.
RECURSIVE FRound(_, _, _, _)
FRound(I, fn, fd, e) ==
    IF I = 0 /\ fn = 0 THEN FZero
    ELSE IF I >= 2^MantBits THEN
        LET k == BitLen(I) - MantBits
            g == 2^k
            q == I \div g
            low == I % g
            half == g \div 2
            up == \/ low > half
                  \/ low = half /\ fn > 0
                  \/ low = half /\ fn = 0 /\ q % 2 = 1
            m == IF up THEN q + 1 ELSE q
        IN  IF m = 2^MantBits THEN <<2^(MantBits - 1), e + k + 1>> ELSE <<m, e + k>>
    ELSE IF I >= 2^(MantBits - 1) THEN
        LET up == \/ 2 * fn > fd
                  \/ 2 * fn = fd /\ I % 2 = 1
            m == IF up THEN I + 1 ELSE I
        IN  IF m = 2^MantBits THEN <<2^(MantBits - 1), e + 1>> ELSE <<m, e>>
    ELSE FRound(2 * I + (IF 2 * fn >= fd THEN 1 ELSE 0), (2 * fn) % fd, fd, e - 1)

\* conversion of an int to float
IntToF(n) == FRound(n, 0, 1, 0)

\* the float nearest to the rational N / D
FromRat(N, D) == FRound(N \div D, N % D, D, 0)

\* x < y and x = y on finite floats
FLess(x, y) ==
    IF y[1] = 0 THEN FALSE
    ELSE IF x[1] = 0 THEN TRUE
    ELSE x[2] < y[2] \/ (x[2] = y[2] /\ x[1] < y[1])

\* (int) x : truncation toward zero
Trunc(x) ==
    IF x[1] = 0 THEN 0
    ELSE IF x[2] >= 0 THEN x[1] * 2^x[2]
    ELSE IF -x[2] >= MantBits THEN 0
    ELSE x[1] \div 2^(-x[2])

\* x - (int) x : exact in binary32
Frac(x) ==
    IF x[1] = 0 \/ x[2] >= 0 THEN FZero
    ELSE IF -x[2] >= MantBits THEN x
    ELSE FRound(x[1] % 2^(-x[2]), 0, 1, x[2])

\* x + y rounded to float
FAdd(x, y) ==
    IF x[1] = 0 THEN y
    ELSE IF y[1] = 0 THEN x
    ELSE LET a == IF x[2] >= y[2] THEN x ELSE y
             b == IF x[2] >= y[2] THEN y ELSE x
             s == a[2] - b[2]
         IN  IF s > MantBits THEN a
             ELSE FRound(a[1] + b[1] \div 2^s, b[1] % 2^s, 2^s, a[2])

\* x - y rounded to float, for x >= y
FSub(x, y) ==
    IF y[1] = 0 THEN x
    ELSE LET s == x[2] - y[2]
             hi == y[1] \div 2^s
             lo == y[1] % 2^s
         IN  IF s > MantBits + 1 THEN x
             ELSE IF lo = 0 THEN FRound(x[1] - hi, 0, 1, x[2])
             ELSE FRound(x[1] - hi - 1, 2^s - lo, 2^s, x[2])

\* x * n rounded to float, n a small non-negative integer held in a float
FMulInt(x, n) == IF x[1] = 0 THEN FZero ELSE FRound(x[1] * n, 0, 1, x[2])

\* x * y rounded to float; the 48-bit product is built from 12-bit halves
FMul(x, y) ==
    IF x[1] = 0 \/ y[1] = 0 THEN FZero
    ELSE LET h == 2^(MantBits \div 2)
             a1 == x[1] \div h
             a0 == x[1] % h
             b1 == y[1] \div h
             b0 == y[1] % h
             mid == a1 * b0 + a0 * b1
             lo == a0 * b0 + (mid % h) * h
             Plo == lo % 2^MantBits
             Phi == a1 * b1 + mid \div h + lo \div 2^MantBits
         IN  FRound(Phi, Plo, 2^MantBits, x[2] + y[2] + MantBits)

\* x / n rounded to float, n a positive integer
FDivInt(x, n) == IF x[1] = 0 THEN FZero ELSE FRound(x[1] \div n, x[1] % n, n, x[2])

\* N * 2^s = q * D + r, as <<q, r>>
RECURSIVE ScaleDiv(_, _, _)
ScaleDiv(N, D, s) ==
    IF s = 0 THEN <<N \div D, N % D>>
    ELSE LET p == ScaleDiv(N, D, s - 1)
         IN  <<2 * p[1] + (IF 2 * p[2] >= D THEN 1 ELSE 0), (2 * p[2]) % D>>

\* x + N / D rounded to float (float += double expression of value N / D)
AddRat(x, N, D) ==
    IF N = 0 THEN x
    ELSE IF x[1] = 0 THEN FromRat(N, D)
    ELSE LET er == FromRat(N, D)[2]
             E == IF x[2] >= er THEN x[2] ELSE er
             s == E - x[2]
             xi == x[1] \div 2^s
             xf == x[1] % 2^s
             r == ScaleDiv(N, D, -E)
         IN  FRound(xi + r[1] + (xf * D + r[2] * 2^s) \div (D * 2^s),
                    (xf * D + r[2] * 2^s) % (D * 2^s), D * 2^s, E)

\* x < 0.00001, the tie tolerance of the round-up scan (a double constant)
TolDenominator == 100000

LessThanTol(x) ==
    \/ x[1] = 0
    \/ LET t == ScaleDiv(1, TolDenominator, 40)
       IN  \/ x[2] < -40
           \/ x[2] = -40 /\ (x[1] < t[1] \/ (x[1] = t[1] /\ t[2] > 0))

\* variant: the ratio itself as a percentage, 1 not subtracted
SlackOfRatioNotRelative(x) ==
    IF ~FIsFinite(x) THEN x
    ELSE FRound(x[1] * 100, 0, 1, x[2])

\* (x - 1.) * 100. stored in a float, for x >= 1/8
SlackOfRatio(x) ==
    IF ~FIsFinite(x) THEN x
    ELSE IF x[1] >= 2^(-x[2]) THEN FRound((x[1] - 2^(-x[2])) * 100, 0, 1, x[2])
    ELSE FNeg(FRound((2^(-x[2]) - x[1]) * 25, 0, 1, x[2] + 2))

(***************************************************************************)
(* operator<< of a float: six significant decimal digits.  The text is     *)
(* <<digits, exp10>>, the decimal d.ddddd * 10^exp10 with its six digits   *)
(* as one integer, negative for a negative float; <<0, 0>> is "0" and      *)
(* "inf" is the text of +inf.                                              *)
(***************************************************************************)
RECURSIVE DecLen(_)
DecLen(n) == IF n = 0 THEN 0 ELSE 1 + DecLen(n \div 10)

RECURSIVE FracDigits(_, _, _, _)
FracDigits(acc, fn, fd, k) ==
    IF k = 0 THEN <<acc, fn>>
    ELSE FracDigits(acc * 10 + (fn * 10) \div fd, (fn * 10) % fd, fd, k - 1)

PrintFloat(x) ==
    IF x = FInf THEN "inf"
    ELSE IF x = FNegInf THEN "-inf"
    ELSE IF x = FNaN THEN "nan"
    ELSE IF x = FZero THEN <<0, 0>>
    ELSE LET a == IF x[1] < 0 THEN <<-x[1], x[2]>> ELSE x
             I == Trunc(a)
             fd == IF a[2] >= 0 THEN 1 ELSE 2^(-a[2])
             fn == IF a[2] >= 0 THEN 0 ELSE a[1] % fd
             nd == DecLen(I)
             r == FracDigits(I, fn, fd, 6 - nd)
             up == 2 * r[2] > fd \/ (2 * r[2] = fd /\ r[1] % 2 = 1)
             d == IF up THEN r[1] + 1 ELSE r[1]
             t == IF d = 1000000 THEN <<100000, nd>> ELSE <<d, nd - 1>>
         IN  IF x[1] < 0 THEN <<-t[1], t[2]>> ELSE t

(***************************************************************************)
(* Inputs of one instance.                                                 *)
(***************************************************************************)

\* the bases of the registry, in registry order
BaseRegistry == <<"BASE1", "BASE2", "BASE3">>

\* largest number of day_k.csv files of an instance
MaxDays == 2

\* largest number of duties (employee-days) in the schedule of a period of
\* one day, and in the schedule of a longer period
MaxDuties == 20
MaxLongDuties == 3

\* values of percentSlack and of percentMainBase in params.txt
SlackPercents == {0, 10, 50}
MainBasePercents == {50, 60}

\* the sequences of c counts of sum at most n
RECURSIVE CountSeqs(_, _)
CountSeqs(c, n) ==
    IF c = 0 THEN {<<>>}
    ELSE UNION {{<<v>> \o s : s \in CountSeqs(c - 1, n - v)} : v \in 0..n}

\* the duty-count matrices of nb bases and nd days holding at most n duties
Matrices(nb, nd, n) ==
    {[i \in 1..nb |-> [j \in 1..nd |-> s[(i - 1) * nd + j]]] : s \in CountSeqs(nb * nd, n)}

(***************************************************************************)
(* State of the generator: the list of instances and the messages of the   *)
(* run, the reading of the schedule of an instance, and the computation of *)
(* its table from the choice of the output (line 248) on.                  *)
(***************************************************************************)
VARIABLES
    instanceNames,               \* the instances: which input files each holds
    instanceNb,                  \* number of the current instance, from 0
    console,                     \* error messages displayed so far
    tables,                      \* tables written so far: <<instance, output>>
    employees,                   \* the records of solution_0, as written
    solutionFile,                \* text of solution_0 that is still to read
    schedule,                    \* rest of the schedule of the employee
    baseIndex,                   \* index of the base of the employee, or -1
    scheduleDay,                 \* variable day of line 206
    taskNb,                      \* number of tasks read in the schedule
    emitted,                     \* duties counted so far, for every record
    baseNames,                   \* names of the bases, in registry order
    numDays,                     \* number of days of the period
    percentSlack,                \* slack to add, in percent
    percentMainBase,             \* share of the main base in percent, or -1
    initialDutiesPerBasePerDay,  \* duties of the initial solution [base][day]
    pc,                          \* position in main
    dutiesPerBasePerDay,         \* first output: duties with slack [base][day]
    sumDutiesPerDay,             \* sum of dutiesPerBasePerDay over the bases
    sumRoundedDownDutiesPerDay,  \* the same sum of the values rounded down
    day,                         \* loop variable j of line 286
    numberRoundUp,               \* number of bases to round up on that day
    round,                       \* loop variable i of lines 311 and 477
    averages,                    \* second output: average per base
    sumAverages,                 \* sum of the averages with slack
    sumAveragesWithoutSlack,     \* sum of the averages without slack
    mainBaseIndex,               \* index of the main base, counted from 0, or -1
    roundedSumAverages,          \* total of the averages after rounding
    numberRoundedUp,             \* number of averages to round up
    percentSlackAdded,           \* slack actually added, in percent
    output                       \* content of crew_avail_const.csv

vars == <<instanceNames, instanceNb, console, tables, employees, solutionFile,
          schedule, baseIndex, scheduleDay, taskNb, emitted,
          baseNames, numDays, percentSlack, percentMainBase,
          initialDutiesPerBasePerDay, pc, dutiesPerBasePerDay, sumDutiesPerDay,
          sumRoundedDownDutiesPerDay, day, numberRoundUp, round, averages,
          sumAverages, sumAveragesWithoutSlack, mainBaseIndex,
          roundedSumAverages, numberRoundedUp, percentSlackAdded, output>>

\* the reading of solution_0
reading == <<employees, solutionFile, schedule, baseIndex, scheduleDay, taskNb,
             emitted>>

\* what the computation of a table reads
instance == <<instanceNames, instanceNb, reading, baseNames, numDays,
              percentSlack, percentMainBase, initialDutiesPerBasePerDay>>

inputs == <<instance, console, tables>>

firstOutput == <<dutiesPerBasePerDay, sumDutiesPerDay,
                 sumRoundedDownDutiesPerDay, day, numberRoundUp>>

secondOutput == <<averages, sumAverages, sumAveragesWithoutSlack,
                  mainBaseIndex, roundedSumAverages, numberRoundedUp>>

\* the file as long as nothing is written: no slack, no header, no row
NoFile == [slack |-> <<0, 0>>, header |-> <<>>, rows |-> <<>>]

\* the error messages of lines 89, 144, 373 and 511
NoListOfBases == "listOfBases.csv file not found"
NoSolution == "solution_0 file not found"
NoFirstOutput == "could not open first output file"
NoSecondOutput == "could not open second output file"

(***************************************************************************)
(* First output (percentMainBase = -1): the duties of each day, with slack.*)
(***************************************************************************)

\* variant: the slack is not applied
ScaledDutyWithoutSlack(n, slack) == IntToF(n)

\* 1.*n*(1.+percentSlack/100) stored in a float: percentSlack/100 is a float
\* division, the sum and the product are exact in double
ScaledDuty(n, slack) ==
    LET f == FromRat(slack, 100)
        fd == 2^(-f[2])
    IN  IF f = FZero THEN IntToF(n)
        ELSE FRound(n + (n * f[1]) \div fd, (n * f[1]) % fd, fd, 0)

\* the values of the bases on day jj
Column(m, jj) == [k \in 1..Len(m) |-> m[k][jj]]

\* float accumulation of col[1..n], in index order
RECURSIVE SumFloats(_, _)
SumFloats(col, n) == IF n = 0 THEN FZero ELSE FAdd(SumFloats(col, n - 1), col[n])

RECURSIVE SumTrunc(_, _)
SumTrunc(col, n) == IF n = 0 THEN 0 ELSE SumTrunc(col, n - 1) + Trunc(col[n])

RECURSIVE SumInts(_, _)
SumInts(col, n) == IF n = 0 THEN 0 ELSE SumInts(col, n - 1) + col[n]

\* lines 256-284
ScaleDuties ==
    /\ pc = "A_scale"
    /\ dutiesPerBasePerDay' =
           [b \in 1..Len(baseNames) |->
               [d \in 1..numDays |->
                   ScaledDuty(initialDutiesPerBasePerDay[b][d], percentSlack)]]
    /\ sumDutiesPerDay' =
           [d \in 1..numDays |->
               SumFloats(Column(dutiesPerBasePerDay', d), Len(baseNames))]
    /\ sumRoundedDownDutiesPerDay' =
           [d \in 1..numDays |->
               SumTrunc(Column(dutiesPerBasePerDay', d), Len(baseNames))]
    /\ day' = 1
    /\ pc' = "A_day"
    /\ UNCHANGED <<inputs, numberRoundUp, round, secondOutput,
                   percentSlackAdded, output>>

\* variant: no crew is added when the slack already added one at a base
NumberRoundUpUnlessAdded(d) ==
    LET n == Trunc(sumDutiesPerDay[d]) - sumRoundedDownDutiesPerDay[d]
        addedOneCrew ==
            \E b \in 1..Len(baseNames) :
                initialDutiesPerBasePerDay[b][d] < Trunc(dutiesPerBasePerDay[b][d])
    IN  IF n = 0 /\ ~addedOneCrew THEN 1 ELSE n

\* lines 288-307: the number of bases to round up on day d
NumberRoundUp(d) ==
    LET n == (Trunc(sumDutiesPerDay[d]) + 1) - sumRoundedDownDutiesPerDay[d]
        addedOneCrew ==
            \E b \in 1..Len(baseNames) :
                initialDutiesPerBasePerDay[b][d] < Trunc(dutiesPerBasePerDay[b][d])
    IN  IF n = 0 /\ ~addedOneCrew THEN 1 ELSE n

\* lines 286-307
BeginDay ==
    /\ pc = "A_day"
    /\ day <= numDays
    /\ numberRoundUp' = NumberRoundUp(day)
    /\ round' = 0
    /\ pc' = "A_round"
    /\ UNCHANGED <<inputs, dutiesPerBasePerDay, sumDutiesPerDay,
                   sumRoundedDownDutiesPerDay, day, secondOutput,
                   percentSlackAdded, output>>

\* variant: the list is not cleared when a higher decimal is found
RECURSIVE HighestDecimalScanNoClear(_, _)
HighestDecimalScanNoClear(col, k) ==
    IF k = 0 THEN <<(<<>>), FZero>>
    ELSE LET prev == HighestDecimalScanNoClear(col, k - 1)
             dec == Frac(col[k])
         IN  IF FLess(prev[2], dec) THEN <<Append(prev[1], k), dec>>
             ELSE IF LessThanTol(FSub(prev[2], dec)) THEN <<Append(prev[1], k), prev[2]>>
             ELSE prev

\* lines 313-335: <<indexHighestDecimal, highestDecimal>> after the scan of
\* the bases 1..k of the column (indexes counted from 1)
RECURSIVE HighestDecimalScan(_, _)
HighestDecimalScan(col, k) ==
    IF k = 0 THEN <<(<<>>), FZero>>
    ELSE LET prev == HighestDecimalScan(col, k - 1)
             dec == Frac(col[k])
         IN  IF FLess(prev[2], dec) THEN <<(<<k>>), dec>>
             ELSE IF LessThanTol(FSub(prev[2], dec)) THEN <<Append(prev[1], k), prev[2]>>
             ELSE prev

\* variant: the first base is the only candidate
IndexOfFirstBase(col) == <<1>>

IndexHighestDecimal(col) == HighestDecimalScan(col, Len(col))[1]

\* lines 311-339, one iteration: rand() picks any of the candidates
RoundUp ==
    /\ pc = "A_round"
    /\ round < numberRoundUp
    /\ LET indexHighestDecimal == IndexHighestDecimal(Column(dutiesPerBasePerDay, day))
       IN  \E Chosen \in 1..Len(indexHighestDecimal) :
               dutiesPerBasePerDay' =
                   [dutiesPerBasePerDay EXCEPT ![indexHighestDecimal[Chosen]][day] =
                       IntToF(Trunc(@) + 1)]
    /\ round' = round + 1
    /\ UNCHANGED <<inputs, pc, sumDutiesPerDay, sumRoundedDownDutiesPerDay, day,
                   numberRoundUp, secondOutput, percentSlackAdded, output>>

\* line 311 false, then j++ at line 286
EndDay ==
    /\ pc = "A_round"
    /\ round >= numberRoundUp
    /\ day' = day + 1
    /\ pc' = "A_day"
    /\ UNCHANGED <<inputs, dutiesPerBasePerDay, sumDutiesPerDay,
                   sumRoundedDownDutiesPerDay, numberRoundUp, round,
                   secondOutput, percentSlackAdded, output>>

\* sum over the matrix of the truncated values
RECURSIVE SumMatrixTrunc(_, _)
SumMatrixTrunc(m, n) ==
    IF n = 0 THEN 0 ELSE SumMatrixTrunc(m, n - 1) + SumTrunc(m[n], Len(m[n]))

RECURSIVE SumMatrix(_, _)
SumMatrix(m, n) ==
    IF n = 0 THEN 0 ELSE SumMatrix(m, n - 1) + SumInts(m[n], Len(m[n]))

\* line 362: (final/initial - 1.)*100. ; the two sums are integers held in
\* floats, their quotient is a float division
SlackAdded(final, initial) ==
    IF initial = 0 THEN (IF final = 0 THEN FNaN ELSE FInf)
    ELSE SlackOfRatio(FromRat(final, initial))

\* lines 342-362, after the last day
ComputeSlackAdded ==
    /\ pc = "A_day"
    /\ day > numDays
    /\ percentSlackAdded' =
           SlackAdded(SumMatrixTrunc(dutiesPerBasePerDay, Len(baseNames)),
                      SumMatrix(initialDutiesPerBasePerDay, Len(baseNames)))
    /\ pc' = "A_write"
    /\ UNCHANGED <<inputs, firstOutput, round, secondOutput, output>>

\* lines 376-416: the comment with the slack added, then one row per day
WriteFirstOutput ==
    /\ pc = "A_write"
    /\ output' = [slack |-> PrintFloat(percentSlackAdded),
                  header |-> baseNames,
                  rows |-> [d \in 1..numDays |->
                               [b \in 1..Len(baseNames) |->
                                   Trunc(dutiesPerBasePerDay[b][d])]]]
    /\ tables' = Append(tables, <<instanceNb, "first">>)
    /\ pc' = "done"
    /\ UNCHANGED <<instance, console, firstOutput, round, secondOutput,
                   percentSlackAdded>>

\* lines 371-374: the output file cannot be opened
FirstOutputFails ==
    /\ pc = "A_write"
    /\ console' = console \cup {<<NoFirstOutput, instanceNb>>}
    /\ pc' = "error"
    /\ UNCHANGED <<instance, tables, firstOutput, round, secondOutput,
                   percentSlackAdded, output>>

(***************************************************************************)
(* Second output (percentMainBase # -1): the average over the period, the  *)
(* same for every day, distributed between the main base and the others.   *)
(***************************************************************************)

\* lines 436-439: duties of base b over the period
PeriodSum(b) == SumInts(initialDutiesPerBasePerDay[b], numDays)

\* lines 433-443: <<mainBaseIndex, mainBaseAvailability>> after the bases 1..n
RECURSIVE MainBaseScan(_)
MainBaseScan(n) ==
    IF n = 0 THEN <<-1, 0>>
    ELSE LET prev == MainBaseScan(n - 1)
         IN  IF PeriodSum(n) > prev[2] THEN <<n - 1, PeriodSum(n)>> ELSE prev

\* variant: the average of a base replaces the sum instead of being added
SumAveragesNotAccumulated(n) ==
    IF n = 0 THEN FZero
    ELSE FromRat(PeriodSum(n) * (100 + percentSlack), numDays * 100)

\* line 446: sumAverages after the bases 1..n; each term is the double
\* 1.*sum/numDays*(1.+percentSlack/100.), of value sum*(100+slack)/(numDays*100)
RECURSIVE SumAverages(_)
SumAverages(n) ==
    IF n = 0 THEN FZero
    ELSE AddRat(SumAverages(n - 1), PeriodSum(n) * (100 + percentSlack), numDays * 100)

\* line 447
RECURSIVE SumAveragesWithoutSlack(_)
SumAveragesWithoutSlack(n) ==
    IF n = 0 THEN FZero
    ELSE AddRat(SumAveragesWithoutSlack(n - 1), PeriodSum(n), numDays)

\* lines 424-448
ComputeAverages ==
    /\ pc = "B_average"
    /\ averages' = [b \in 1..Len(baseNames) |->
                       FromRat(PeriodSum(b) * (100 + percentSlack), numDays * 100)]
    /\ mainBaseIndex' = MainBaseScan(Len(baseNames))[1]
    /\ sumAverages' = SumAverages(Len(baseNames))
    /\ sumAveragesWithoutSlack' = SumAveragesWithoutSlack(Len(baseNames))
    /\ pc' = "B_distribute"
    /\ UNCHANGED <<inputs, firstOutput, round, roundedSumAverages, numberRoundedUp,
                   percentSlackAdded, output>>

\* line 453: sumAverages*percentMainBase/100. ; a float product, then a
\* double division stored in a float
MainBaseShare(s, percent) == FDivInt(FMulInt(s, percent), 100)

\* variant: the rest is not divided among the other bases
OtherBaseShareUndivided(s, percent, others) ==
    FMul(s, FSub(IntToF(1), FromRat(percent, 100)))

\* line 456: sumAverages*(1-percentMainBase/100)/(baseNames.size()-1), all
\* in float
OtherBaseShare(s, percent, others) ==
    LET rest == FMul(s, FSub(IntToF(1), FromRat(percent, 100)))
    IN  IF others # 0 THEN FDivInt(rest, others)
        ELSE IF rest = FZero THEN FNaN
        ELSE FInf

\* lines 450-458
Distribute ==
    /\ pc = "B_distribute"
    /\ averages' = [b \in 1..Len(baseNames) |->
                       IF b - 1 = mainBaseIndex
                       THEN MainBaseShare(sumAverages, percentMainBase)
                       ELSE OtherBaseShare(sumAverages, percentMainBase,
                                           Len(baseNames) - 1)]
    /\ pc' = "B_target"
    /\ UNCHANGED <<inputs, firstOutput, round, sumAverages, sumAveragesWithoutSlack,
                   mainBaseIndex, roundedSumAverages, numberRoundedUp,
                   percentSlackAdded, output>>

\* variant: the sum is truncated, no crew is added
RoundedSumWithoutExtra(s) == Trunc(s)

\* line 462: int roundedSumAverages = sumAverages+1, a float sum truncated
RoundedSum(s) == Trunc(FAdd(s, IntToF(1)))

\* lines 460-474
ComputeNumberRoundedUp ==
    /\ pc = "B_target"
    /\ \A b \in 1..Len(averages) : FIsFinite(averages[b])
    /\ roundedSumAverages' = RoundedSum(sumAverages)
    /\ numberRoundedUp' = RoundedSum(sumAverages) - SumTrunc(averages, Len(averages))
    /\ round' = 0
    /\ pc' = "B_round"
    /\ UNCHANGED <<inputs, firstOutput, averages, sumAverages,
                   sumAveragesWithoutSlack, mainBaseIndex, percentSlackAdded, output>>

\* INT_MIN
IntMin == -2147483647 - 1

\* (int) of a NaN is undefined; the conversion gives INT_MIN on x86
\* (cvttss2si) and 0 on other targets (fcvtzs)
NaNToInt == {IntMin, 0}

\* the float of an int that is INT_MIN or of small size
IntAsFloat(n) == IF n = IntMin THEN <<-(2^(MantBits - 1)), 8>> ELSE IntToF(n)

\* lines 462-498 when the average of the only base is NaN: the conversions
\* of lines 473, 483, 489 and 495 are undefined, v is what they give; the
\* subtraction of line 473 is in 32 bits, the comparison of line 483 is
\* false on NaN, and the sum without slack of line 498 is 0
RoundUndefinedAverage ==
    /\ pc = "B_target"
    /\ averages = <<FNaN>>
    /\ \E v \in NaNToInt :
           LET up == IF v = IntMin THEN IntMin + 1 ELSE RoundedSum(sumAverages) - v
               final == IF up > 0 THEN v + up ELSE v
           IN  /\ roundedSumAverages' = RoundedSum(sumAverages)
               /\ numberRoundedUp' = up
               /\ round' = IF up > 0 THEN up ELSE 0
               /\ averages' = <<IntAsFloat(final)>>
               /\ percentSlackAdded' = IF final < 0 THEN FNegInf ELSE FInf
    /\ pc' = "B_write"
    /\ UNCHANGED <<inputs, firstOutput, sumAverages, sumAveragesWithoutSlack,
                   mainBaseIndex, output>>

\* variant: the scan keeps the first of the best decimals (> instead of >=)
RECURSIVE BestDecimalScanStrict(_, _)
BestDecimalScanStrict(avg, k) ==
    IF k = 0 THEN <<1, FZero>>
    ELSE LET prev == BestDecimalScanStrict(avg, k - 1)
             dec == Frac(avg[k])
         IN  IF FLess(prev[2], dec) THEN <<k, dec>> ELSE prev

\* lines 478-487: <<index, decimal>> after the scan of averages 1..k; index
\* is counted from 1 here and starts on the first base
RECURSIVE BestDecimalScan(_, _)
BestDecimalScan(avg, k) ==
    IF k = 0 THEN <<1, FZero>>
    ELSE LET prev == BestDecimalScan(avg, k - 1)
             dec == Frac(avg[k])
         IN  IF ~FLess(dec, prev[2]) THEN <<k, dec>> ELSE prev

BestDecimalIndex(avg) == BestDecimalScan(avg, Len(avg))[1]

\* variant: any of the bases that hold the best decimal is rounded up
RoundUpAverageOfAnyBest ==
    /\ pc = "B_round"
    /\ round < numberRoundedUp
    /\ \E b \in 1..Len(averages) :
           /\ ~FLess(Frac(averages[b]), BestDecimalScan(averages, Len(averages))[2])
           /\ averages' = [averages EXCEPT ![b] = IntToF(Trunc(@) + 1)]
    /\ round' = round + 1
    /\ UNCHANGED <<inputs, firstOutput, pc, sumAverages, sumAveragesWithoutSlack,
                   mainBaseIndex, roundedSumAverages, numberRoundedUp,
                   percentSlackAdded, output>>

\* lines 477-491, one iteration
RoundUpAverage ==
    /\ pc = "B_round"
    /\ round < numberRoundedUp
    /\ averages' = [averages EXCEPT ![BestDecimalIndex(averages)] =
                       IntToF(Trunc(@) + 1)]
    /\ round' = round + 1
    /\ UNCHANGED <<inputs, firstOutput, pc, sumAverages, sumAveragesWithoutSlack,
                   mainBaseIndex, roundedSumAverages, numberRoundedUp,
                   percentSlackAdded, output>>

\* line 498: (1.*after/without-1)*100 in double, stored in a float; after is
\* an integer held in a float
SlackAddedAverage(after, without) ==
    IF without = FZero THEN (IF after = 0 THEN FNaN ELSE FInf)
    ELSE LET m == without[1]
             d == after * 2^(-without[2]) - m
             x == IF d < 0 THEN -d ELSE d
             r == (x % m) * 100
             p == FRound((x \div m) * 100 + r \div m, r % m, m, 0)
         IN  IF d < 0 THEN FNeg(p) ELSE p

\* lines 492-498, after the last round-up
RoundDown ==
    /\ pc = "B_round"
    /\ round >= numberRoundedUp
    /\ averages' = [b \in 1..Len(averages) |-> IntToF(Trunc(averages[b]))]
    /\ percentSlackAdded' =
           SlackAddedAverage(SumTrunc(averages, Len(averages)), sumAveragesWithoutSlack)
    /\ pc' = "B_write"
    /\ UNCHANGED <<inputs, firstOutput, round, sumAverages, sumAveragesWithoutSlack,
                   mainBaseIndex, roundedSumAverages, numberRoundedUp, output>>

\* variant: the rows hold the duties of the day, as in the first output
WriteSecondOutputPerDay ==
    /\ pc = "B_write"
    /\ output' = [slack |-> PrintFloat(percentSlackAdded),
                  header |-> baseNames,
                  rows |-> [d \in 1..numDays |->
                               [b \in 1..Len(baseNames) |->
                                   initialDutiesPerBasePerDay[b][d]]]]
    /\ tables' = Append(tables, <<instanceNb, "second">>)
    /\ pc' = "done"
    /\ UNCHANGED <<instance, console, firstOutput, round, secondOutput,
                   percentSlackAdded>>

\* lines 514-553: the comment, then the same row of averages for every day
\* (an integer held in a float prints as that integer)
WriteSecondOutput ==
    /\ pc = "B_write"
    /\ output' = [slack |-> PrintFloat(percentSlackAdded),
                  header |-> baseNames,
                  rows |-> [d \in 1..numDays |->
                               [b \in 1..Len(baseNames) |-> Trunc(averages[b])]]]
    /\ tables' = Append(tables, <<instanceNb, "second">>)
    /\ pc' = "done"
    /\ UNCHANGED <<instance, console, firstOutput, round, secondOutput,
                   percentSlackAdded>>

\* lines 510-512: the output file cannot be opened
SecondOutputFails ==
    /\ pc = "B_write"
    /\ console' = console \cup {<<NoSecondOutput, instanceNb>>}
    /\ pc' = "error"
    /\ UNCHANGED <<instance, tables, firstOutput, round, secondOutput,
                   percentSlackAdded, output>>

\* lines 248 and 419: percentMainBase = -1 selects the first output
SelectFirstOutput ==
    /\ pc = "select"
    /\ percentMainBase = -1
    /\ pc' = "A_scale"
    /\ UNCHANGED <<inputs, firstOutput, round, secondOutput, percentSlackAdded, output>>

\* variant: the second output is computed whatever percentMainBase is
SelectSecondOutputAlways ==
    /\ pc = "select"
    /\ pc' = "B_average"
    /\ UNCHANGED <<inputs, firstOutput, round, secondOutput, percentSlackAdded, output>>

SelectSecondOutput ==
    /\ pc = "select"
    /\ percentMainBase # -1
    /\ pc' = "B_average"
    /\ UNCHANGED <<inputs, firstOutput, round, secondOutput, percentSlackAdded, output>>

(***************************************************************************)
(* Reading of solution_0 (lines 161-242).  A text is a sequence of         *)
(* characters, positions are counted from 0 as in std::string.             *)
(***************************************************************************)

\* std::string::npos as the int of line 214
Npos == -1

\* s.substr(pos, n) and s.substr(pos), for pos <= s.length()
SubStr(s, pos, n) == SubSeq(s, pos + 1, IF pos + n > Len(s) THEN Len(s) ELSE pos + n)
SubStrFrom(s, pos) == SubSeq(s, pos + 1, Len(s))

\* s.find(c)
RECURSIVE FindFrom(_, _, _)
FindFrom(s, c, i) ==
    IF i > Len(s) THEN Npos
    ELSE IF s[i] = c THEN i - 1
    ELSE FindFrom(s, c, i + 1)

Find(s, c) == FindFrom(s, c, 1)

Digits == <<"0", "1", "2", "3", "4", "5", "6", "7", "8", "9">>

DigitValue(c) ==
    IF \E k \in 1..Len(Digits) : Digits[k] = c
    THEN (CHOOSE k \in 1..Len(Digits) : Digits[k] = c) - 1
    ELSE -1

\* convert >> taskDay on a text of at most two characters without sign or
\* space: the value of the leading digits, 0 when there is none
ToInt(s) ==
    IF s = <<>> \/ DigitValue(s[1]) = -1 THEN 0
    ELSE IF Len(s) = 1 \/ DigitValue(s[2]) = -1 THEN DigitValue(s[1])
    ELSE 10 * DigitValue(s[1]) + DigitValue(s[2])

\* the literals of lines 225 and 227
VACATION == <<"V", "A", "C", "A", "T", "I", "O", "N">>
POST == <<"P", "O", "S", "T">>
TDH == <<"T", "D", "H">>
PAL == <<"P", "A", "L">>

\* lines 212-223: the task at the head of the schedule, what is left after
\* it, and whether it is the last one
NextTask(s) ==
    LET pos == Find(s, "-")
    IN  IF pos # Npos THEN SubStr(s, 0, pos) ELSE SubStr(s, 0, Len(s) - 1)

RestOfSchedule(s) ==
    LET pos == Find(s, "-")
    IN  IF pos # Npos THEN SubStrFrom(s, pos + 4) ELSE s

IsLastTask(s) == Find(s, "-") = Npos

\* variant: a deadhead is taken for an airleg
IsAirlegOrDeadhead(task) ==
    /\ task # VACATION
    /\ SubStr(task, 0, 4) # POST

\* line 225: the task is an airleg
IsAirleg(task) ==
    /\ task # VACATION
    /\ SubStr(task, 0, 4) # POST
    /\ SubStr(task, 0, 3) # TDH

\* variant: the separator after the prefix PAL is kept
AirlegAfterPrefix(task) == IF SubStr(task, 0, 3) = PAL THEN SubStrFrom(task, 3) ELSE task

\* lines 227-229: the airleg without the prefix of a preferred airleg
Airleg(task) == IF SubStr(task, 0, 3) = PAL THEN SubStrFrom(task, 4) ELSE task

\* lines 231-233: the day of the flight
TaskDay(task) == ToInt(SubStr(Airleg(task), 4, 2))

\* the characters of a base name of listOfBases.csv or of solution_0
Text(name) ==
    CASE name = "BASE1" -> <<"B", "A", "S", "E", "1">>
      [] name = "BASE2" -> <<"B", "A", "S", "E", "2">>
      [] name = "BASE3" -> <<"B", "A", "S", "E", "3">>
      [] name = "ADMIN" -> <<"A", "D", "M", "I", "N">>

\* lines 184-191: index of the base of that name, counted from 0, or -1
RECURSIVE BaseIndexFrom(_, _)
BaseIndexFrom(baseString, i) ==
    IF i > Len(baseNames) THEN -1
    ELSE IF baseString = Text(baseNames[i]) THEN i - 1
    ELSE BaseIndexFrom(baseString, i + 1)

\* variant: an unlisted base is taken for the first one
BaseIndexOrFirst(baseString) ==
    IF BaseIndexFrom(baseString, 1) = -1 THEN 0 ELSE BaseIndexFrom(baseString, 1)

BaseIndex(baseString) == BaseIndexFrom(baseString, 1)

\* lines 175-194: the next record of the file
ReadRecord ==
    /\ pc = "P_read"
    /\ solutionFile # <<>>
    /\ LET record == Head(solutionFile)
           baseString == SubStr(record.base, 1, Len(record.base) - 2)
           index == BaseIndex(baseString)
       IN  /\ schedule' = SubStrFrom(record.line, 1)
           /\ baseIndex' = index
           /\ scheduleDay' = IF index # -1 THEN 0 ELSE scheduleDay
           /\ emitted' = Append(emitted, [base |-> index, days |-> <<>>])
           /\ pc' = IF index # -1 THEN "P_task" ELSE "P_read"
    /\ solutionFile' = Tail(solutionFile)
    /\ taskNb' = 0
    /\ UNCHANGED <<instanceNames, instanceNb, console, tables, employees,
                   baseNames, numDays, percentSlack, percentMainBase,
                   initialDutiesPerBasePerDay, firstOutput, round, secondOutput,
                   percentSlackAdded, output>>

\* variant: an airleg of the day of the last duty starts a duty too
IsNewDutyOrSameDay(taskDay, previous) == taskDay >= previous

\* line 235: the airleg starts a new duty
IsNewDuty(taskDay, previous) == taskDay > previous

\* variant: the day of the last duty is not kept
LastDutyForgotten(newDuty, taskDay, previous) == previous

\* line 236: the day of the last duty counted, after a task
LastDuty(newDuty, taskDay, previous) == IF newDuty THEN taskDay ELSE previous

\* variant: the duty is counted for the first base
CountDutyOfFirstBase(duties, i, taskDay) == [duties EXCEPT ![1][taskDay] = @ + 1]

\* line 237: one duty more for the base of index i (from 0) on that day
CountDuty(duties, i, taskDay) == [duties EXCEPT ![i + 1][taskDay] = @ + 1]

\* lines 210-240: the days of the duties counted for a schedule, previous
\* being the day of the last duty counted
RECURSIVE DaysOfSchedule(_, _)
DaysOfSchedule(s, previous) ==
    LET task == NextTask(s)
        newDuty == IsAirleg(task) /\ IsNewDuty(TaskDay(task), previous)
        counted == IF newDuty THEN <<TaskDay(task)>> ELSE <<>>
    IN  IF IsLastTask(s) THEN counted
        ELSE counted \o DaysOfSchedule(RestOfSchedule(s),
                                       LastDuty(newDuty, TaskDay(task), previous))

\* line 237: the cell [taskDay-1] is an element of the row of the base
InsideMatrix(taskDay) == taskDay - 1 < numDays

\* lines 210-240, one iteration: the next task of the employee, when the
\* duty it starts, if any, has a cell in the matrix
ParseTask ==
    /\ pc = "P_task"
    /\ LET task == NextTask(schedule)
           newDuty == IsAirleg(task) /\ IsNewDuty(TaskDay(task), scheduleDay)
       IN  /\ newDuty => InsideMatrix(TaskDay(task))
           /\ scheduleDay' = LastDuty(newDuty, TaskDay(task), scheduleDay)
           /\ initialDutiesPerBasePerDay' =
                  IF newDuty
                  THEN CountDuty(initialDutiesPerBasePerDay, baseIndex, TaskDay(task))
                  ELSE initialDutiesPerBasePerDay
           /\ emitted' =
                  IF newDuty
                  THEN [emitted EXCEPT ![Len(emitted)].days = Append(@, TaskDay(task))]
                  ELSE emitted
    /\ schedule' = RestOfSchedule(schedule)
    /\ pc' = IF IsLastTask(schedule) THEN "P_read" ELSE "P_task"
    /\ taskNb' = taskNb + 1
    /\ UNCHANGED <<instanceNames, instanceNb, console, tables, employees,
                   solutionFile, baseIndex, baseNames, numDays, percentSlack,
                   percentMainBase, firstOutput, round, secondOutput,
                   percentSlackAdded, output>>

\* largest value that a cell written over is given
MaxOverwritten == 2

\* the matrix after a write outside the row of a base: the same, or one cell
\* with another value
OverwrittenMatrices(duties) ==
    {duties} \cup
        {[duties EXCEPT ![b][d] = v] :
            b \in 1..Len(duties), d \in 1..numDays, v \in 0..MaxOverwritten}

\* lines 235-238 for an airleg of a day after the last day_k.csv: nothing
\* compares taskDay with numDays, and the increment of line 237 is a write
\* past the end of the row of the base.  The behaviour is undefined: the
\* reading goes on with the matrix as it was or with a cell written over,
\* or the run aborts
CountDutyOutsideMatrix ==
    /\ pc = "P_task"
    /\ LET task == NextTask(schedule)
       IN  /\ IsAirleg(task)
           /\ IsNewDuty(TaskDay(task), scheduleDay)
           /\ ~InsideMatrix(TaskDay(task))
           /\ scheduleDay' = LastDuty(TRUE, TaskDay(task), scheduleDay)
           /\ emitted' = [emitted EXCEPT ![Len(emitted)].days = Append(@, TaskDay(task))]
    /\ \/ /\ initialDutiesPerBasePerDay' \in OverwrittenMatrices(initialDutiesPerBasePerDay)
          /\ schedule' = RestOfSchedule(schedule)
          /\ pc' = IF IsLastTask(schedule) THEN "P_read" ELSE "P_task"
       \/ /\ pc' = "aborted"
          /\ UNCHANGED <<initialDutiesPerBasePerDay, schedule>>
    /\ taskNb' = taskNb + 1
    /\ UNCHANGED <<instanceNames, instanceNb, console, tables, employees,
                   solutionFile, baseIndex, baseNames, numDays, percentSlack,
                   percentMainBase, firstOutput, round, secondOutput,
                   percentSlackAdded, output>>

\* line 175: no record is left
EndOfSolution ==
    /\ pc = "P_read"
    /\ solutionFile = <<>>
    /\ pc' = "select"
    /\ UNCHANGED <<inputs, firstOutput, round, secondOutput, percentSlackAdded, output>>

(***************************************************************************)
(* Specification: one instance whose schedule has been read.  The second   *)
(* output divides by the number of other bases, so it is given at least    *)
(* two bases here.                                                         *)
(***************************************************************************)

\* an instance whose input files are all present
CompleteInstance == [listOfBases |-> TRUE, solution_0 |-> TRUE]

\* nothing of solution_0 is left to read
ScheduleRead ==
    /\ employees = <<>>
    /\ solutionFile = <<>>
    /\ schedule = <<>>
    /\ baseIndex = -1
    /\ scheduleDay = 0
    /\ taskNb = 0
    /\ emitted = <<>>

\* nothing is computed yet for the instance
NothingComputed ==
    /\ dutiesPerBasePerDay = <<>>
    /\ sumDutiesPerDay = <<>>
    /\ sumRoundedDownDutiesPerDay = <<>>
    /\ day = 0
    /\ numberRoundUp = 0
    /\ round = 0
    /\ averages = <<>>
    /\ sumAverages = FZero
    /\ sumAveragesWithoutSlack = FZero
    /\ mainBaseIndex = -1
    /\ roundedSumAverages = 0
    /\ numberRoundedUp = 0
    /\ percentSlackAdded = FZero
    /\ output = NoFile

Init ==
    /\ instanceNames = <<CompleteInstance>>
    /\ instanceNb = 0
    /\ console = {}
    /\ tables = <<>>
    /\ ScheduleRead
    /\ \E nb \in 1..Len(BaseRegistry), nd \in 1..MaxDays :
           /\ baseNames = SubSeq(BaseRegistry, 1, nb)
           /\ numDays = nd
           /\ initialDutiesPerBasePerDay \in
                  Matrices(nb, nd, IF nd = 1 THEN MaxDuties ELSE MaxLongDuties)
    /\ percentSlack \in SlackPercents
    /\ percentMainBase \in {-1} \cup MainBasePercents
    /\ percentMainBase # -1 => Len(baseNames) >= 2
    /\ pc = "select"
    /\ NothingComputed

Next ==
    \/ SelectFirstOutput
    \/ SelectSecondOutput
    \/ ScaleDuties
    \/ BeginDay
    \/ RoundUp
    \/ EndDay
    \/ ComputeSlackAdded
    \/ WriteFirstOutput
    \/ FirstOutputFails
    \/ ComputeAverages
    \/ Distribute
    \/ ComputeNumberRoundedUp
    \/ RoundUpAverage
    \/ RoundDown
    \/ WriteSecondOutput
    \/ SecondOutputFails

Spec == Init /\ [][Next]_vars

(***************************************************************************)
(* Specification: the reading of the schedule of one instance of two bases.*)
(* The records are drawn as lists of tasks and written in the format of    *)
(* lines 150-159; the generator reads the text.                            *)
(***************************************************************************)

\* largest day of an airleg in the drawn schedules; the period has one day
\* more, for the schedules given as examples
MaxLegDay == 2

\* largest number of tasks of the schedule of an employee
MaxTasks == 3

\* largest number of records of a file of several employees
MaxRecords == 2

\* a task is <<kind, day>>
Tasks ==
    ({"LEG", "PAL"} \X (0..MaxLegDay))
        \cup {<<"TDH", MaxLegDay>>, <<"VACATION", 0>>, <<"POST", 0>>}

DayCode(d) == <<Digits[(d \div 10) + 1], Digits[(d % 10) + 1]>>

LegText(d) == <<"L", "E", "G", "_">> \o DayCode(d) \o <<"_", "7">>

TaskText(t) ==
    CASE t[1] = "LEG" -> LegText(t[2])
      [] t[1] = "PAL" -> <<"P", "A", "L", "_">> \o LegText(t[2])
      [] t[1] = "TDH" -> <<"T", "D", "H", "_">> \o DayCode(t[2]) \o <<"_", "7">>
      [] t[1] = "VACATION" -> VACATION
      [] t[1] = "POST" -> POST \o <<"_", "P", "A", "I", "R", "I", "N", "G">>

\* TASK--->TASK--->...TASK;
RECURSIVE ScheduleText(_)
ScheduleText(tasks) ==
    IF Len(tasks) = 1 THEN TaskText(tasks[1]) \o <<";">>
    ELSE TaskText(Head(tasks)) \o <<"-", "-", "-", ">">> \o ScheduleText(Tail(tasks))

\* the base of a record: a name, between parentheses or not
Token(name, wrapped) == [name |-> name, wrapped |-> wrapped]

TokenText(token) ==
    IF token.wrapped THEN <<"(">> \o Text(token.name) \o <<")">>
    ELSE Text(token.name)

\* what the generator reads of a record: the fourth word, and the line
\* after the fifth word
Written(record) ==
    [base |-> TokenText(record.token), line |-> <<" ">> \o ScheduleText(record.tasks)]

SeqsUpTo(T, n) == UNION {[1..k -> T] : k \in 1..n}

Legs(days) == [k \in 1..Len(days) |-> <<"LEG", days[k]>>]

\* the schedules given as examples: legs on days 1, 1, 2, 2, 2, 3 and on
\* days 1, 3, 2
ExampleFiles ==
    {<<[token |-> Token("BASE1", TRUE), tasks |-> Legs(<<1, 1, 2, 2, 2, 3>>)]>>,
     <<[token |-> Token("BASE1", TRUE), tasks |-> Legs(<<1, 3, 2>>)]>>}

\* files of one employee with any tasks, files of several employees with
\* one or two legs each
ScheduleFiles ==
    {<<[token |-> k, tasks |-> t]>> :
        k \in {Token("BASE2", TRUE), Token("ADMIN", TRUE)}, t \in SeqsUpTo(Tasks, MaxTasks)}
    \cup UNION {[1..n -> {[token |-> k, tasks |-> t] :
                            k \in {Token("BASE1", TRUE), Token("BASE2", TRUE),
                                   Token("ADMIN", TRUE), Token("BASE1", FALSE)},
                            t \in SeqsUpTo({<<"LEG", 1>>, <<"LEG", 2>>}, 2)}] :
                n \in 2..MaxRecords}
    \cup ExampleFiles

ParserInit ==
    /\ instanceNames = <<CompleteInstance>>
    /\ instanceNb = 0
    /\ console = {}
    /\ tables = <<>>
    /\ employees \in ScheduleFiles
    /\ solutionFile = [r \in 1..Len(employees) |-> Written(employees[r])]
    /\ schedule = <<>>
    /\ baseIndex = -1
    /\ scheduleDay = 0
    /\ taskNb = 0
    /\ emitted = <<>>
    /\ baseNames = SubSeq(BaseRegistry, 1, 2)
    /\ numDays = MaxLegDay + 1
    /\ initialDutiesPerBasePerDay = [b \in 1..2 |-> [d \in 1..(MaxLegDay + 1) |-> 0]]
    /\ percentSlack = 0
    /\ percentMainBase = -1
    /\ pc = "P_read"
    /\ NothingComputed

ParserNext ==
    \/ ReadRecord
    \/ ParseTask
    \/ EndOfSolution

ParserSpec == ParserInit /\ [][ParserNext]_vars

(***************************************************************************)
(* Specification: the reading of the same schedules in an instance with    *)
(* any number of day_k.csv files, so that an airleg may fall after the     *)
(* last day of the period.                                                 *)
(***************************************************************************)

\* lines 96-135: numDays is the number of day_k.csv files found, and the
\* matrix has that many columns
PeriodInit ==
    /\ instanceNames = <<CompleteInstance>>
    /\ instanceNb = 0
    /\ console = {}
    /\ tables = <<>>
    /\ employees \in ScheduleFiles
    /\ solutionFile = [r \in 1..Len(employees) |-> Written(employees[r])]
    /\ schedule = <<>>
    /\ baseIndex = -1
    /\ scheduleDay = 0
    /\ taskNb = 0
    /\ emitted = <<>>
    /\ baseNames = SubSeq(BaseRegistry, 1, 2)
    /\ numDays \in 1..MaxLegDay
    /\ initialDutiesPerBasePerDay = [b \in 1..2 |-> [d \in 1..numDays |-> 0]]
    /\ percentSlack = 0
    /\ percentMainBase = -1
    /\ pc = "P_read"
    /\ NothingComputed

PeriodNext ==
    \/ ReadRecord
    \/ ParseTask
    \/ CountDutyOutsideMatrix
    \/ EndOfSolution

PeriodSpec == PeriodInit /\ [][PeriodNext]_vars

(***************************************************************************)
(* Specification: the loop over the instances (lines 82-562).  Each        *)
(* instance has two bases and a period of MaxLegDay days.                  *)
(***************************************************************************)

\* largest number of instances of the parameter file
MaxInstances == 2

\* an instance: which of its input files can be opened
Instances == [listOfBases : BOOLEAN, solution_0 : BOOLEAN]

\* the schedules of the instances of the batch
BatchFiles ==
    {<<[token |-> Token("BASE1", TRUE), tasks |-> Legs(<<1, 2>>)],
       [token |-> Token("BASE2", TRUE), tasks |-> Legs(<<1>>)]>>,
     <<[token |-> Token("BASE2", TRUE), tasks |-> Legs(<<2, 1>>)],
       [token |-> Token("ADMIN", TRUE), tasks |-> Legs(<<1>>)]>>}

\* the instance of number instanceNb
CurrentInstance == instanceNames[instanceNb + 1]

\* line 82: there is one more instance
EnterInstance ==
    /\ pc = "loop"
    /\ instanceNb < Len(instanceNames)
    /\ pc' = "bases"
    /\ UNCHANGED <<inputs, firstOutput, round, secondOutput, percentSlackAdded, output>>

\* lines 82 and 562: no instance is left
Return ==
    /\ pc = "loop"
    /\ instanceNb >= Len(instanceNames)
    /\ pc' = "returned"
    /\ UNCHANGED <<inputs, firstOutput, round, secondOutput, percentSlackAdded, output>>

\* lines 88-90: listOfBases.csv cannot be opened; the increment of line 559
\* is in the other branch, the loop goes on with the same instanceNb
RegistryMissing ==
    /\ pc = "bases"
    /\ ~CurrentInstance.listOfBases
    /\ console' = console \cup {<<NoListOfBases, instanceNb>>}
    /\ pc' = "loop"
    /\ UNCHANGED <<instance, tables, firstOutput, round, secondOutput,
                   percentSlackAdded, output>>

\* variant: the counts start at the number of tables written so far
ReadBasesKeepingCounts ==
    /\ pc = "bases"
    /\ CurrentInstance.listOfBases
    /\ baseNames' = SubSeq(BaseRegistry, 1, 2)
    /\ numDays' = MaxLegDay
    /\ initialDutiesPerBasePerDay' = [b \in 1..2 |-> [d \in 1..MaxLegDay |-> Len(tables)]]
    /\ pc' = "solution"
    /\ UNCHANGED <<instanceNames, instanceNb, console, tables, reading,
                   percentSlack, percentMainBase, firstOutput, round,
                   secondOutput, percentSlackAdded, output>>

\* lines 88 and 96-135: the bases, the days and the counts at 0
ReadBases ==
    /\ pc = "bases"
    /\ CurrentInstance.listOfBases
    /\ baseNames' = SubSeq(BaseRegistry, 1, 2)
    /\ numDays' = MaxLegDay
    /\ initialDutiesPerBasePerDay' = [b \in 1..2 |-> [d \in 1..MaxLegDay |-> 0]]
    /\ pc' = "solution"
    /\ UNCHANGED <<instanceNames, instanceNb, console, tables, reading,
                   percentSlack, percentMainBase, firstOutput, round,
                   secondOutput, percentSlackAdded, output>>

\* variant: the missing schedule is not reported
SolutionMissingUnreported ==
    /\ pc = "solution"
    /\ ~CurrentInstance.solution_0
    /\ pc' = "skipped"
    /\ UNCHANGED <<inputs, firstOutput, round, secondOutput, percentSlackAdded, output>>

\* lines 143-145: solution_0 cannot be opened
SolutionMissing ==
    /\ pc = "solution"
    /\ ~CurrentInstance.solution_0
    /\ console' = console \cup {<<NoSolution, instanceNb>>}
    /\ pc' = "skipped"
    /\ UNCHANGED <<instance, tables, firstOutput, round, secondOutput,
                   percentSlackAdded, output>>

\* lines 140 and 161-170: solution_0 is opened
OpenSolution ==
    /\ pc = "solution"
    /\ CurrentInstance.solution_0
    /\ employees' \in BatchFiles
    /\ solutionFile' = [r \in 1..Len(employees') |-> Written(employees'[r])]
    /\ emitted' = <<>>
    /\ pc' = "P_read"
    /\ UNCHANGED <<instanceNames, instanceNb, console, tables, schedule,
                   baseIndex, scheduleDay, taskNb, baseNames, numDays,
                   percentSlack, percentMainBase, initialDutiesPerBasePerDay,
                   firstOutput, round, secondOutput, percentSlackAdded, output>>

\* lines 556-560: the end of the body of the loop, where the variables
\* declared in the body are lost
NextInstance ==
    /\ pc \in {"done", "error", "skipped"}
    /\ instanceNb' = instanceNb + 1
    /\ pc' = "loop"
    /\ employees' = <<>>
    /\ solutionFile' = <<>>
    /\ schedule' = <<>>
    /\ baseIndex' = -1
    /\ scheduleDay' = 0
    /\ taskNb' = 0
    /\ emitted' = <<>>
    /\ baseNames' = <<>>
    /\ numDays' = 0
    /\ initialDutiesPerBasePerDay' = <<>>
    /\ dutiesPerBasePerDay' = <<>>
    /\ sumDutiesPerDay' = <<>>
    /\ sumRoundedDownDutiesPerDay' = <<>>
    /\ day' = 0
    /\ numberRoundUp' = 0
    /\ round' = 0
    /\ averages' = <<>>
    /\ sumAverages' = FZero
    /\ sumAveragesWithoutSlack' = FZero
    /\ mainBaseIndex' = -1
    /\ roundedSumAverages' = 0
    /\ numberRoundedUp' = 0
    /\ percentSlackAdded' = FZero
    /\ output' = NoFile
    /\ UNCHANGED <<instanceNames, console, tables, percentSlack, percentMainBase>>

BatchInit ==
    /\ instanceNames \in SeqsUpTo(Instances, MaxInstances)
    /\ instanceNb = 0
    /\ console = {}
    /\ tables = <<>>
    /\ ScheduleRead
    /\ baseNames = <<>>
    /\ numDays = 0
    /\ initialDutiesPerBasePerDay = <<>>
    /\ percentSlack = 10
    /\ percentMainBase \in {-1} \cup MainBasePercents
    /\ pc = "loop"
    /\ NothingComputed

BatchNext ==
    \/ EnterInstance
    \/ Return
    \/ RegistryMissing
    \/ ReadBases
    \/ SolutionMissing
    \/ OpenSolution
    \/ ReadRecord
    \/ ParseTask
    \/ EndOfSolution
    \/ Next
    \/ NextInstance

BatchSpec == BatchInit /\ [][BatchNext]_vars

\* the program is sequential: a statement of the loop that can run does run
FairBatchSpec ==
    /\ BatchSpec
    /\ WF_vars(EnterInstance \/ Return \/ RegistryMissing \/ ReadBases
                   \/ SolutionMissing \/ OpenSolution \/ NextInstance)

(***************************************************************************)
(* Specification: the second output of an instance of one base.            *)
(***************************************************************************)

SingleBaseInit ==
    /\ instanceNames = <<CompleteInstance>>
    /\ instanceNb = 0
    /\ console = {}
    /\ tables = <<>>
    /\ ScheduleRead
    /\ baseNames = SubSeq(BaseRegistry, 1, 1)
    /\ numDays \in 1..MaxDays
    /\ initialDutiesPerBasePerDay \in
           Matrices(1, numDays, IF numDays = 1 THEN MaxDuties ELSE MaxLongDuties)
    /\ percentSlack \in SlackPercents
    /\ percentMainBase \in MainBasePercents
    /\ pc = "select"
    /\ NothingComputed

SingleBaseNext ==
    \/ SelectSecondOutput
    \/ ComputeAverages
    \/ Distribute
    \/ ComputeNumberRoundedUp
    \/ RoundUndefinedAverage
    \/ RoundUpAverage
    \/ RoundDown
    \/ WriteSecondOutput
    \/ SecondOutputFails

SingleBaseSpec == SingleBaseInit /\ [][SingleBaseNext]_vars

(***************************************************************************)
(* Properties of the first output.                                         *)
(***************************************************************************)

FirstOutputWritten == pc = "done" /\ percentMainBase = -1
SecondOutputWritten == pc = "done" /\ percentMainBase # -1

Bases == 1..Len(baseNames)
Days == 1..numDays

\* sum over the bases of the written row of day d, and of the raw counts
RowTotal(d) == SumInts(output.rows[d], Len(baseNames))
RawDayTotal(d) == SumInts(Column(initialDutiesPerBasePerDay, d), Len(baseNames))

\* floor(raw count * (1 + slack)) in exact arithmetic
ExactFloor(b, d) == (initialDutiesPerBasePerDay[b][d] * (100 + percentSlack)) \div 100

\* C1: the total of a written day of the first output is
\* floor(sum of scaled counts) + 1, or floor(sum of scaled counts) when the
\* floor of some base already exceeds its raw count.
C1_TotalWithException ==
    FirstOutputWritten =>
        \A d \in Days :
            RowTotal(d) =
                IF \E b \in Bases : ExactFloor(b, d) > initialDutiesPerBasePerDay[b][d]
                THEN Trunc(sumDutiesPerDay[d])
                ELSE Trunc(sumDutiesPerDay[d]) + 1

\* totals over the period of the written table and of the raw counts
WrittenPeriodTotal == SumInts([d \in Days |-> RowTotal(d)], numDays)
RawPeriodTotal == SumInts([b \in Bases |-> PeriodSum(b)], Len(baseNames))

\* C2 as stated: in both outputs the total written for a day is at least the
\* total of the raw counts of that day.
C2_EveryDayCoversRaw ==
    pc = "done" => \A d \in Days : RowTotal(d) >= RawDayTotal(d)

\* C2 amended: the first output writes for every day a total at least the raw
\* total of that day; the second output, with two bases or more, writes a
\* table whose total over the period is at least the raw total of the period.
C2_TotalCoversRaw ==
    /\ FirstOutputWritten => \A d \in Days : RowTotal(d) >= RawDayTotal(d)
    /\ SecondOutputWritten => WrittenPeriodTotal >= RawPeriodTotal

\* a second output whose flat row is below the raw total of some day
C2_Witness ==
    /\ SecondOutputWritten
    /\ \E d \in Days : RowTotal(d) < RawDayTotal(d)
    /\ WrittenPeriodTotal >= RawPeriodTotal

\* base b holds a decimal within 0.00001 of the highest decimal of the column
NearHighestDecimal(col, b) ==
    \A c \in 1..Len(col) :
        FLess(Frac(col[b]), Frac(col[c])) =>
            LessThanTol(FSub(Frac(col[c]), Frac(col[b])))

\* a step of the first output obeys the largest-remainder rule
RoundsUpHighestDecimal ==
    /\ (pc = "A_round" /\ round' = round + 1) =>
           \E b \in Bases :
               /\ NearHighestDecimal(Column(dutiesPerBasePerDay, day), b)
               /\ dutiesPerBasePerDay' =
                      [dutiesPerBasePerDay EXCEPT ![b][day] =
                          IntToF(Trunc(dutiesPerBasePerDay[b][day]) + 1)]
    /\ (pc = "A_write" /\ pc' = "done") =>
           \A b \in Bases, d \in Days :
               dutiesPerBasePerDay[b][d] =
                       ScaledDuty(initialDutiesPerBasePerDay[b][d], percentSlack)
                   => output'.rows[d][b] = ExactFloor(b, d)
    /\ pc = "A_scale" =>
           LET v == <<FromRat(27, 10), FromRat(22, 10), FromRat(11, 10)>>
               w == [v EXCEPT ![1] = IntToF(3)]
           IN  IndexHighestDecimal(v) = <<1>> /\ IndexHighestDecimal(w) = <<2>>

\* C3: every round-up of the first output adds 1 to the floor of one base whose
\* decimal is, at that moment, within 0.00001 of the highest decimal of the
\* day, and changes nothing else; a base that was never chosen is written with
\* its floor.  On the values 2.7, 2.2, 1.1 the two round-ups go to 2.7 and
\* then to 2.2.
C3_RoundUpHighestDecimal == [][RoundsUpHighestDecimal]_vars

\* two of three bases with the same decimal have been rounded up, the third
\* keeps its scaled value
C3_Witness ==
    /\ pc = "A_round"
    /\ round = 2
    /\ Len(baseNames) = 3
    /\ \E b \in Bases :
           /\ Frac(dutiesPerBasePerDay[b][day]) # FZero
           /\ dutiesPerBasePerDay[b][day] =
                  ScaledDuty(initialDutiesPerBasePerDay[b][day], percentSlack)
           /\ \A c \in Bases \ {b} :
                  /\ initialDutiesPerBasePerDay[c][day] = initialDutiesPerBasePerDay[b][day]
                  /\ Frac(dutiesPerBasePerDay[c][day]) = FZero

\* C4: no written value of the first output is below
\* floor(raw count * (1 + slack)).
C4_FloorInvariant ==
    FirstOutputWritten =>
        \A b \in Bases, d \in Days : output.rows[d][b] >= ExactFloor(b, d)

C4_Witness ==
    /\ FirstOutputWritten
    /\ percentSlack > 0
    /\ \E b \in Bases, d \in Days :
           /\ ExactFloor(b, d) > initialDutiesPerBasePerDay[b][d]
           /\ output.rows[d][b] = ExactFloor(b, d)

\* the instance of the worked example: two bases, one day, 8 and 2 duties,
\* 10% of slack, first output
IsExample ==
    /\ percentMainBase = -1
    /\ percentSlack = 10
    /\ initialDutiesPerBasePerDay = <<(<<8>>), (<<2>>)>>

\* C5: on the worked example the target of the day is 12, the first base is
\* rounded up first and the second base next, the table holds 9 and 3 and the
\* slack written is 20.
C5_Example ==
    IsExample =>
        /\ pc = "A_round" =>
               /\ Trunc(sumDutiesPerDay[1]) + 1 = 12
               /\ numberRoundUp = 2
               /\ round = 1 =>
                      /\ Trunc(dutiesPerBasePerDay[1][1]) = 9
                      /\ dutiesPerBasePerDay[2][1] = ScaledDuty(2, 10)
               /\ round = 2 =>
                      /\ Trunc(dutiesPerBasePerDay[1][1]) = 9
                      /\ Trunc(dutiesPerBasePerDay[2][1]) = 3
        /\ pc = "done" =>
               /\ output.rows = <<(<<9, 3>>)>>
               /\ output.slack = <<200000, 1>>

C5_Witness ==
    /\ IsExample
    /\ pc = "done"
    /\ output.rows = <<(<<9, 3>>)>>

\* the average given to base b by the distribution, from the exact sum of the
\* averages: <<numerator, denominator>>
RawTarget(b) ==
    IF b - 1 = mainBaseIndex
    THEN <<RawPeriodTotal * (100 + percentSlack) * percentMainBase,
           numDays * 10000>>
    ELSE <<RawPeriodTotal * (100 + percentSlack) * (100 - percentMainBase),
           numDays * 10000 * (Len(baseNames) - 1)>>

\* the bases whose decimal is the highest of the averages
BestDecimals(avg) ==
    {b \in 1..Len(avg) : \A c \in 1..Len(avg) : ~FLess(Frac(avg[b]), Frac(avg[c]))}

Min(S) == CHOOSE x \in S : \A y \in S : x <= y
Max(S) == CHOOSE x \in S : \A y \in S : x >= y

\* a round-up of the second output adds 1 to the floor of base b only
RoundsUpAverageOf(b) ==
    averages' = [averages EXCEPT ![b] = IntToF(Trunc(averages[b]) + 1)]

IsRoundUpAverage == pc = "B_round" /\ round' = round + 1

C7_RoundUpFirstBest ==
    [][IsRoundUpAverage => RoundsUpAverageOf(Min(BestDecimals(averages)))]_vars

\* C7 amended: every round-up of the second output goes to the last, in base
\* order, of the bases that hold the highest decimal.
C7_RoundUpLastBest ==
    [][IsRoundUpAverage => RoundsUpAverageOf(Max(BestDecimals(averages)))]_vars

\* after the first round-up, an earlier base still holds the decimal that the
\* rounded base had
C7_Witness ==
    /\ pc = "B_round"
    /\ round = 1
    /\ \E b \in Bases :
           /\ averages[b] =
                  IntToF(Trunc(FromRat(RawTarget(b)[1], RawTarget(b)[2])) + 1)
           /\ \E c \in 1..(b - 1) :
                  /\ averages[c] = FromRat(RawTarget(c)[1], RawTarget(c)[2])
                  /\ Frac(averages[c]) =
                         Frac(FromRat(RawTarget(b)[1], RawTarget(b)[2]))
                  /\ Frac(averages[c]) # FZero

\* C8: once the averages are computed, the main base is the first base, in
\* base order, of largest total over the period; there is one on every matrix.
C8_MainBaseIsFirstLargest ==
    (percentMainBase # -1 /\ pc \notin {"select", "B_average"}) =>
        /\ mainBaseIndex + 1 \in Bases
        /\ \A c \in Bases : PeriodSum(c) <= PeriodSum(mainBaseIndex + 1)
        /\ \A c \in 1..mainBaseIndex : PeriodSum(c) < PeriodSum(mainBaseIndex + 1)

\* two floats differ by less than 0.00001
Near(x, y) == LessThanTol(IF FLess(x, y) THEN FSub(y, x) ELSE FSub(x, y))

TargetFloor(b) == RawTarget(b)[1] \div RawTarget(b)[2]

\* C9: in the second output with two bases or more, the distribution gives
\* the main base S * percentMainBase / 100 and every other base
\* S * (100 - percentMainBase) / 100 / (number of bases - 1), S being the sum
\* of the averages with slack (the floats of the program are within 0.00001
\* of these values); the targets sum to S; the value written for a base is
\* the floor of its target or that floor plus 1.
C9_TargetsAndRounding ==
    /\ pc = "B_target" =>
           /\ \A b \in Bases :
                  Near(averages[b], FromRat(RawTarget(b)[1], RawTarget(b)[2]))
           /\ Near(SumFloats(averages, Len(averages)), sumAverages)
    /\ SecondOutputWritten =>
           \A b \in Bases, d \in Days :
               output.rows[d][b] \in {TargetFloor(b), TargetFloor(b) + 1}

\* three bases, targets that are not integers, one base written with the
\* floor of its target and another with the floor plus 1
C9_Witness ==
    /\ SecondOutputWritten
    /\ Len(baseNames) = 3
    /\ \A b \in Bases : RawTarget(b)[1] % RawTarget(b)[2] # 0
    /\ \E b, c \in Bases :
           /\ b - 1 = mainBaseIndex
           /\ c - 1 # mainBaseIndex
           /\ output.rows[1][b] = TargetFloor(b)
           /\ output.rows[1][c] = TargetFloor(c) + 1

\* C10: in the second output every base has the same value on every day.
C10_Flatness ==
    SecondOutputWritten =>
        \A b \in Bases, d1 \in Days, d2 \in Days :
            output.rows[d1][b] = output.rows[d2][b]

\* a second output over two days whose raw counts differ from day to day
C10_Witness ==
    /\ SecondOutputWritten
    /\ numDays >= 2
    /\ \E b \in Bases :
           initialDutiesPerBasePerDay[b][1] # initialDutiesPerBasePerDay[b][2]
    /\ output.rows[1] = output.rows[2]

(***************************************************************************)
(* Properties of the reading of the schedules.  employees holds the        *)
(* records as they were drawn, emitted the days of the duties counted for  *)
(* each record read.                                                       *)
(***************************************************************************)

\* the base of the record is one of the bases of the instance
IsListed(record) ==
    record.token.wrapped /\ \E b \in Bases : baseNames[b] = record.token.name

IsLeg(t) == t[1] \in {"LEG", "PAL"}

\* the days of the airlegs of a list of tasks, in the order of the list
LegDays(tasks) ==
    LET legs == SelectSeq(tasks, IsLeg)
    IN  [k \in 1..Len(legs) |-> legs[k][2]]

NonDecreasing(days) == \A k \in 1..(Len(days) - 1) : days[k] <= days[k + 1]
Increasing(days) == \A k \in 1..(Len(days) - 1) : days[k] < days[k + 1]
Elements(q) == {q[k] : k \in 1..Len(q)}

\* the records whose line is wholly read
Finished == IF pc = "P_task" THEN 1..(Len(emitted) - 1) ELSE 1..Len(emitted)

\* the task that the next ParseTask step reads
CurrentTask == employees[Len(emitted)].tasks[taskNb + 1]

\* the days of the duties of a list of tasks: an airleg starts a duty when
\* its day is after the day of the last duty, which is 0 at first
RECURSIVE DutyDaysFrom(_, _)
DutyDaysFrom(tasks, last) ==
    IF tasks = <<>> THEN <<>>
    ELSE LET t == Head(tasks)
             new == IsLeg(t) /\ t[2] > last
         IN  (IF new THEN <<t[2]>> ELSE <<>>)
                 \o DutyDaysFrom(Tail(tasks), IF new THEN t[2] ELSE last)

DutyDays(tasks) == DutyDaysFrom(tasks, 0)

\* C11: when the airlegs of an employee are on non-decreasing days, exactly
\* one duty is counted for each distinct day on which the employee has an
\* airleg, in the order of the days and the last task of the line included;
\* airlegs on days 1, 1, 2, 2, 2, 3 give the three duties 1, 2, 3
C11_OneDutyPerDay ==
    \A r \in Finished :
        LET days == LegDays(employees[r].tasks)
            counted == emitted[r].days
        IN  IsListed(employees[r]) /\ NonDecreasing(days) =>
                /\ Elements(counted) = Elements(days) \ {0}
                /\ Increasing(counted)
                /\ days = <<1, 1, 2, 2, 2, 3>> => counted = <<1, 2, 3>>

C11_Witness ==
    /\ pc = "select"
    /\ Len(employees) = 1
    /\ IsListed(employees[1])
    /\ LegDays(employees[1].tasks) = <<1, 1, 2, 2, 2, 3>>
    /\ emitted[1].days = <<1, 2, 3>>
    /\ initialDutiesPerBasePerDay[1][3] = 1

C13_NonFlightTaskIgnored ==
    [][(pc = "P_task" /\ CurrentTask[1] \in {"VACATION", "POST", "TDH"}) =>
           UNCHANGED <<emitted, initialDutiesPerBasePerDay, scheduleDay>>]_vars

\* a deadhead of the last day is read first, and the airleg of day 1 that
\* follows it is counted
C13_Witness ==
    /\ pc = "select"
    /\ Len(employees) = 1
    /\ IsListed(employees[1])
    /\ employees[1].tasks = <<<<"TDH", MaxLegDay>>, <<"LEG", 1>>>>
    /\ emitted[1].days = <<1>>

\* a preferred airleg as the plain airleg
Unprefixed(tasks) ==
    [k \in 1..Len(tasks) |-> IF tasks[k][1] = "PAL" THEN <<"LEG", tasks[k][2]>> ELSE tasks[k]]

\* C14: the duties counted for a schedule are those counted for the same
\* schedule with every PAL_X replaced by X
C14_PreferredLegAsLeg ==
    \A r \in Finished :
        IsListed(employees[r]) =>
            emitted[r].days = DaysOfSchedule(ScheduleText(Unprefixed(employees[r].tasks)), 0)

C14_Witness ==
    /\ pc = "select"
    /\ Len(employees) = 1
    /\ IsListed(employees[1])
    /\ employees[1].tasks = <<<<"PAL", 1>>, <<"LEG", 1>>, <<"PAL", 2>>>>
    /\ emitted[1].days = <<1, 2>>

\* C15: a record whose base is not a base of the instance leaves the counts
\* as they are and reports nothing, and the records after it are read as
\* usual
C15_UnknownBaseSkipped ==
    [][/\ (pc = "P_read" /\ solutionFile # <<>>
               /\ ~IsListed(employees[Len(emitted) + 1])) =>
              /\ UNCHANGED <<initialDutiesPerBasePerDay, console>>
              /\ pc' = "P_read"
              /\ solutionFile' = Tail(solutionFile)
              /\ emitted'[Len(emitted')].days = <<>>
       /\ pc' = "select" =>
              /\ Len(emitted') = Len(employees)
              /\ \A r \in 1..Len(employees) :
                     IsListed(employees[r]) =>
                         emitted'[r].days = DutyDays(employees[r].tasks)]_vars

C15_Witness ==
    /\ pc = "select"
    /\ Len(employees) = 2
    /\ ~IsListed(employees[1])
    /\ LegDays(employees[1].tasks) # <<>>
    /\ emitted[1].days = <<>>
    /\ IsListed(employees[2])
    /\ emitted[2].days # <<>>

\* the number of employees of base b who have a duty on day d
EmployeesOnDuty(b, d) ==
    Cardinality({r \in 1..Len(employees) :
                    /\ IsListed(employees[r])
                    /\ employees[r].token.name = baseNames[b]
                    /\ d \in Elements(DutyDays(employees[r].tasks))})

\* C16: the day of the last duty is 0 at the start of each record, each
\* duty counted adds exactly 1 to the cell of the base of the record and of
\* the day of the duty and nothing else changes a cell; when the file is
\* read the cell of base b and day d is the number of employees of b who
\* have a duty on day d, in whatever order the records are
C16_CellCountsEmployees ==
    [][/\ (pc = "P_read" /\ pc' = "P_task") => scheduleDay' = 0
       /\ IF pc = "P_task" /\ emitted' # emitted
          THEN LET days == emitted'[Len(emitted')].days
               IN  initialDutiesPerBasePerDay' =
                       [initialDutiesPerBasePerDay
                           EXCEPT ![baseIndex + 1][days[Len(days)]] = @ + 1]
          ELSE UNCHANGED initialDutiesPerBasePerDay
       /\ pc' = "select" =>
              \A b \in Bases, d \in Days :
                  initialDutiesPerBasePerDay'[b][d] = EmployeesOnDuty(b, d)]_vars

\* the first employee ends on day 2, the airleg of day 1 of the second one
\* of the same base is counted
C16_Witness ==
    /\ pc = "select"
    /\ employees = <<[token |-> Token("BASE1", TRUE), tasks |-> Legs(<<2, 1>>)],
                     [token |-> Token("BASE1", TRUE), tasks |-> Legs(<<1>>)]>>
    /\ initialDutiesPerBasePerDay[1] = [d \in Days |-> IF d \in {1, 2} THEN 1 ELSE 0]

(***************************************************************************)
(* Properties of the loop over the instances.                              *)
(***************************************************************************)

\* a failure of instance i is on the console
ReportedIn(messages, i) ==
    \E m \in {NoSolution, NoFirstOutput, NoSecondOutput} : <<m, i>> \in messages

\* the tables written for instance i
TablesIn(written, i) == {k \in 1..Len(written) : written[k][1] = i}

\* C17: when solution_0 of an instance is missing or its output file cannot
\* be opened, the failure is reported, no table is written for the instance,
\* and the loop goes on with the next instance
C17_FailureSkipsInstance ==
    /\ [](pc \in {"error", "skipped"} => ENABLED NextInstance)
    /\ [][/\ (pc = "solution" /\ ~CurrentInstance.solution_0) => pc' = "skipped"
          /\ (pc \in {"A_write", "B_write"} /\ tables' = tables) => pc' = "error"
          /\ pc' \in {"error", "skipped"} => ReportedIn(console', instanceNb')
          /\ \A i \in 0..(Len(instanceNames) - 1) :
                 ReportedIn(console', i) => TablesIn(tables', i) = {}
          /\ pc \in {"error", "skipped"} => (instanceNb' = instanceNb + 1 /\ pc' = "loop")
          /\ (pc = "loop" /\ instanceNb < Len(instanceNames)) => pc' = "bases"]_vars

\* the output file of the first instance could not be opened, the table of
\* the second instance is written
C17_Witness ==
    /\ pc = "returned"
    /\ ReportedIn(console, 0)
    /\ <<NoSolution, 0>> \notin console
    /\ TablesIn(tables, 0) = {}
    /\ TablesIn(tables, 1) # {}

\* C18: once listOfBases.csv of an instance is missing, the run stops
C18_RunStopsAfterMissingRegistry ==
    (\E m \in console : m[1] = NoListOfBases) ~> (pc = "returned")

FirstOutputSteps == {"A_scale", "A_day", "A_round", "A_write"}
SecondOutputSteps == {"B_average", "B_distribute", "B_target", "B_round", "B_write"}

C19_SingleBaseRejected ==
    (Len(baseNames) = 1 /\ percentMainBase # -1) =>
        /\ \A b \in 1..Len(averages) : averages[b] # FNaN
        /\ tables = <<>>

\* C21: the loop over the instances ends whatever files are missing: the
\* number of the instance goes past every instance, and after the message
\* on a missing listOfBases.csv the program goes on with the next instance
C21_LoopAdvances ==
    \A i \in 0..(MaxInstances - 1) :
        (instanceNb = i /\ <<NoListOfBases, i>> \in console) ~> (instanceNb = i + 1)

(***************************************************************************)
(* Further properties of the two outputs.                                  *)
(***************************************************************************)

C23_NoBaseRoundedUpTwice ==
    /\ []((pc = "A_round" /\ round < numberRoundUp) =>
              IndexHighestDecimal(Column(dutiesPerBasePerDay, day)) # <<>>)
    /\ [][/\ (pc = "A_round" /\ round' = round + 1) =>
                 \A b \in Bases :
                     dutiesPerBasePerDay'[b][day] # dutiesPerBasePerDay[b][day] =>
                         /\ dutiesPerBasePerDay[b][day] =
                                ScaledDuty(initialDutiesPerBasePerDay[b][day], percentSlack)
                         /\ dutiesPerBasePerDay'[b][day] =
                                IntToF(Trunc(dutiesPerBasePerDay[b][day]) + 1)
          /\ (pc = "A_write" /\ pc' = "done") =>
                 \A b \in Bases, d \in Days :
                     output'.rows[d][b] \in {ExactFloor(b, d), ExactFloor(b, d) + 1}]_vars

\* as many values to round up as bases: each base is rounded up once
C23_Witness ==
    /\ FirstOutputWritten
    /\ Len(baseNames) >= 2
    /\ \E d \in Days :
           \A b \in Bases :
               /\ ExactFloor(b, d) > initialDutiesPerBasePerDay[b][d]
               /\ output.rows[d][b] = ExactFloor(b, d) + 1

\* C24: a duty is counted only for a day of the period: the day of every
\* duty counted is between 1 and numDays, the number of day_k.csv files
C24_CountedInsidePeriod ==
    \A r \in 1..Len(emitted) :
        \A k \in 1..Len(emitted[r].days) : emitted[r].days[k] \in 1..numDays

\* C25: in both outputs, when some duty is counted, the slack of the written
\* table (total of the written values over total of the raw counts, minus
\* 1) is strictly greater than percentSlack
C25_SlackStrictlyExceeded ==
    ((FirstOutputWritten \/ SecondOutputWritten) /\ RawPeriodTotal > 0) =>
        WrittenPeriodTotal * 100 > RawPeriodTotal * (100 + percentSlack)

\* the average of base b after the distribution, from the inputs alone
DistributedAverage(b) ==
    IF b - 1 = MainBaseScan(Len(baseNames))[1]
    THEN MainBaseShare(SumAverages(Len(baseNames)), percentMainBase)
    ELSE OtherBaseShare(SumAverages(Len(baseNames)), percentMainBase, Len(baseNames) - 1)

\* avg after k round-ups, each of the last base of best decimal
RECURSIVE RoundedUpLast(_, _)
RoundedUpLast(avg, k) ==
    IF k <= 0 THEN avg
    ELSE RoundedUpLast([avg EXCEPT ![Max(BestDecimals(avg))] = IntToF(Trunc(@) + 1)],
                       k - 1)

\* the averages of the bases 1..n after the distribution
RECURSIVE DistributedAverages(_)
DistributedAverages(n) ==
    IF n = 0 THEN <<>>
    ELSE Append(DistributedAverages(n - 1), DistributedAverage(n))

\* the floors of avg[1..n]
RECURSIVE Floors(_, _)
Floors(avg, n) ==
    IF n = 0 THEN <<>> ELSE Append(Floors(avg, n - 1), Trunc(avg[n]))

\* avg rounded: as many round-ups as the rounded sum of the averages asks
RoundedAverages(avg) ==
    Floors(RoundedUpLast(avg, RoundedSum(SumAverages(Len(baseNames)))
                                  - SumTrunc(avg, Len(avg))),
           Len(avg))

\* the row of the second output, from the inputs alone
SecondAllocation == RoundedAverages(DistributedAverages(Len(baseNames)))

\* the total of day d of the first output, from the inputs alone
FirstTotal(d) ==
    Trunc(SumFloats([b \in Bases |->
                        ScaledDuty(initialDutiesPerBasePerDay[b][d], percentSlack)],
                    Len(baseNames))) + 1

\* C26: the second output is a function of the bases, the matrix, numDays,
\* percentSlack and percentMainBase: every written row is the allocation
\* computed from them, whatever rand() gives; in the first output the total
\* of every day is a function of the same inputs, only the bases rounded up
\* among tied ones may differ
C26_OutputsFromInputs ==
    /\ SecondOutputWritten =>
           /\ \A d \in Days : output.rows[d] = SecondAllocation
           /\ output.slack =
                  PrintFloat(SlackAddedAverage(SumInts(SecondAllocation, Len(baseNames)),
                                               SumAveragesWithoutSlack(Len(baseNames))))
    /\ FirstOutputWritten => \A d \in Days : RowTotal(d) = FirstTotal(d)

\* a second output where two bases had the same average with a decimal and
\* one of them only was rounded up
C26_Witness ==
    /\ SecondOutputWritten
    /\ \E b \in Bases, c \in Bases :
           /\ b < c
           /\ DistributedAverage(b) = DistributedAverage(c)
           /\ Frac(DistributedAverage(b)) # FZero
           /\ output.rows[1][c] = output.rows[1][b] + 1

\* C27: the matrix of an instance starts with every count at 0, no count
\* decreases while solution_0 is read, neither output nor the writing of the
\* table changes the matrix, and the counts of an instance whose schedule
\* is read are those of its own employees, whatever instance came before
C27_CountsOfOneInstance ==
    [][/\ (pc = "bases" /\ pc' = "solution") =>
              /\ Len(initialDutiesPerBasePerDay') = Len(baseNames')
              /\ \A b \in 1..Len(baseNames') :
                     initialDutiesPerBasePerDay'[b] = [d \in 1..numDays' |-> 0]
       /\ pc \in {"solution", "P_read", "P_task"} =>
              \A b \in Bases, d \in Days :
                  initialDutiesPerBasePerDay'[b][d] >= initialDutiesPerBasePerDay[b][d]
       /\ pc \in {"select"} \cup FirstOutputSteps \cup SecondOutputSteps =>
              UNCHANGED initialDutiesPerBasePerDay
       /\ pc' = "select" =>
              \A b \in Bases, d \in Days :
                  initialDutiesPerBasePerDay'[b][d] = EmployeesOnDuty(b, d)]_vars

\* the schedule of the second instance is read after a table was written
\* for the first one
C27_Witness ==
    /\ pc = "select"
    /\ instanceNb = 1
    /\ TablesIn(tables, 0) # {}
    /\ initialDutiesPerBasePerDay = <<<<1, 1>>, <<1, 0>>>>

====
